---- MODULE Spec2Model ----
(***************************************************************************)
(* wpi-sched: a worksheet of course rows is turned into an iCalendar       *)
(* document.  The model follows package cmd as it is called from           *)
(* processFile: GetCourses (getColumns and the row loop), WriteIcalBuf,    *)
(* GetIcal, sanitizeUID, convertStartDate, convertDate and convertTime.    *)
(* Go strings are TLA+ strings; Go's 0-based indices are kept, so the Go   *)
(* expression row[j] is row[j + 1] here.                                   *)
(***************************************************************************)
EXTENDS Integers, Sequences, FiniteSets, TLC

VARIABLES
    pc,         \* position of the call that is being followed
    rows,       \* GetCourses: the worksheet, as f.GetRows returns it
    courses,    \* the []Course GetCourses returns and WriteIcalBuf reads
    err,        \* the error value of the call that returned last
    w,          \* WriteIcalBuf: everything written to the io.Writer so far
    n,          \* WriteIcalBuf: number of courses the loop has consumed
    c,          \* GetIcal: its Course argument
    e,          \* GetIcal: the event block it returned
    dateStr,    \* convertStartDate: its dateStr argument
    validDays,  \* convertStartDate: its validDays argument
    t           \* convertStartDate: the string it returned

vars == <<pc, rows, courses, err, w, n, c, e, dateStr, validDays, t>>

-----------------------------------------------------------------------------
(* Bounds of the model. *)

\* longest validDays slice handed to convertStartDate
MaxDays == 4

\* longest []Course handed to WriteIcalBuf
MaxCourses == 3

\* most data rows under the header of a worksheet
MaxDataRows == 2

-----------------------------------------------------------------------------
(* Program constants. *)

MEETING_COL == "Meeting Patterns"
DESC_COL == "Course Listing"
START_DATE_COL == "Start Date"
END_DATE_COL == "End Date"
INSTRUCTOR_COL == "Instructor"
TIMEZONE == "America/New_York"

\* the loop count of convertStartDate: for range 7
SearchDays == 7

\* the nil error
Nil == "nil"

-----------------------------------------------------------------------------
(* Go's strings package on TLA+ strings. *)

At(s, k) == SubSeq(s, k, k)

Digits == {"0", "1", "2", "3", "4", "5", "6", "7", "8", "9"}

Letters ==
    {"a", "b", "c", "d", "e", "f", "g", "h", "i", "j", "k", "l", "m",
     "n", "o", "p", "q", "r", "s", "t", "u", "v", "w", "x", "y", "z",
     "A", "B", "C", "D", "E", "F", "G", "H", "I", "J", "K", "L", "M",
     "N", "O", "P", "Q", "R", "S", "T", "U", "V", "W", "X", "Y", "Z"}

\* the white space strings.TrimSpace cuts (the ASCII part that cells hold)
Space == {" ", "\t"}

DigitChar(d) == SubSeq("0123456789", d + 1, d + 1)

DigitVal(ch) == CHOOSE d \in 0..9 : DigitChar(d) = ch

IsDigit(s, k) == k <= Len(s) /\ At(s, k) \in Digits

\* position of the first sep at or after k, or 0
RECURSIVE IndexFrom(_, _, _)
IndexFrom(s, sep, k) ==
    IF k > Len(s) THEN 0
    ELSE IF At(s, k) = sep THEN k
    ELSE IndexFrom(s, sep, k + 1)

\* strings.Split(s, sep) for a one-byte sep: always at least one element
RECURSIVE Split(_, _)
Split(s, sep) ==
    LET k == IndexFrom(s, sep, 1)
    IN  IF k = 0 THEN <<s>>
        ELSE <<SubSeq(s, 1, k - 1)>> \o Split(SubSeq(s, k + 1, Len(s)), sep)

RECURSIVE TrimLeft(_, _)
TrimLeft(s, cut) ==
    IF Len(s) > 0 /\ At(s, 1) \in cut
    THEN TrimLeft(SubSeq(s, 2, Len(s)), cut)
    ELSE s

RECURSIVE TrimRight(_, _)
TrimRight(s, cut) ==
    IF Len(s) > 0 /\ At(s, Len(s)) \in cut
    THEN TrimRight(SubSeq(s, 1, Len(s) - 1), cut)
    ELSE s

\* strings.Trim(s, cutset)
Trim(s, cut) == TrimRight(TrimLeft(s, cut), cut)

TrimSpace(s) == Trim(s, Space)

\* strings.Join(elems, sep)
RECURSIVE Join(_, _)
Join(elems, sep) ==
    IF Len(elems) = 0 THEN ""
    ELSE IF Len(elems) = 1 THEN elems[1]
    ELSE elems[1] \o sep \o Join(Tail(elems), sep)

\* slices.Contains(s, v)
Contains(s, v) == \E k \in 1..Len(s) : s[k] = v

-----------------------------------------------------------------------------
(* Package time, as far as the program uses it: a date is [y, m, d]. *)

IsLeap(y) == y % 4 = 0 /\ (y % 100 # 0 \/ y % 400 = 0)

DaysIn(m, y) ==
    IF m = 2 THEN (IF IsLeap(y) THEN 29 ELSE 28)
    ELSE IF m \in {4, 6, 9, 11} THEN 30
    ELSE 31

\* days since 1970-01-01
DayNumber(date) ==
    LET y   == IF date.m <= 2 THEN date.y - 1 ELSE date.y
        mp  == IF date.m > 2 THEN date.m - 3 ELSE date.m + 9
        era == y \div 400
        yoe == y - era * 400
        doy == (153 * mp + 2) \div 5 + date.d - 1
        doe == yoe * 365 + yoe \div 4 - yoe \div 100 + doy
    IN  era * 146097 + doe - 719468

\* t.Weekday(): Sunday = 0 ... Saturday = 6; 1970-01-01 was a Thursday
Weekday(date) == (DayNumber(date) + 4) % 7

\* t.AddDate(0, 0, 1)
AddDay(date) ==
    IF date.d < DaysIn(date.m, date.y) THEN [date EXCEPT !.d = @ + 1]
    ELSE IF date.m < 12 THEN [date EXCEPT !.m = @ + 1, !.d = 1]
    ELSE [y |-> date.y + 1, m |-> 1, d |-> 1]

Pad2(k) == DigitChar(k \div 10) \o DigitChar(k % 10)

\* t.Format("20060102")
FormatDate(date) ==
    Pad2(date.y \div 100) \o Pad2(date.y % 100) \o Pad2(date.m) \o Pad2(date.d)

\* getnum(value, true): exactly two digits
TwoDigits(s, k) == IsDigit(s, k) /\ IsDigit(s, k + 1)

Num2(s, k) == 10 * DigitVal(At(s, k)) + DigitVal(At(s, k + 1))

\* atoi of the two year bytes: two digits, or a sign and one digit
YearOk(s, k) ==
    \/ TwoDigits(s, k)
    \/ k <= Len(s) /\ At(s, k) \in {"+", "-"} /\ IsDigit(s, k + 1)

YearVal(s, k) ==
    LET yy == IF TwoDigits(s, k) THEN Num2(s, k)
              ELSE IF At(s, k) = "-" THEN 0 - DigitVal(At(s, k + 1))
              ELSE DigitVal(At(s, k + 1))
    IN  IF yy >= 69 THEN yy + 1900 ELSE yy + 2000

\* time.Parse("01-02-06", s): [ok, date]
ParseDate(s) ==
    LET shape == /\ Len(s) = 8
                 /\ TwoDigits(s, 1) /\ At(s, 3) = "-"
                 /\ TwoDigits(s, 4) /\ At(s, 6) = "-"
                 /\ YearOk(s, 7)
        date  == [y |-> YearVal(s, 7), m |-> Num2(s, 1), d |-> Num2(s, 4)]
    IN  IF shape /\ date.m \in 1..12 /\ date.d \in 1..DaysIn(date.m, date.y)
        THEN [ok |-> TRUE, date |-> date]
        ELSE [ok |-> FALSE, date |-> [y |-> 0, m |-> 0, d |-> 0]]

\* convertDate
convertDate(s) ==
    LET p == ParseDate(s)
    IN  IF ~p.ok THEN [s |-> "", err |-> "parse date"]
        ELSE [s |-> FormatDate(p.date), err |-> Nil]

\* Advance with the test after the step: the start date itself is never tried
RECURSIVE AdvanceAfter(_, _, _)
AdvanceAfter(date, days, k) ==
    IF k = 0 THEN date
    ELSE IF Contains(days, Weekday(AddDay(date))) THEN AddDay(date)
    ELSE AdvanceAfter(AddDay(date), days, k - 1)

\* the loop of convertStartDate, with k iterations left
RECURSIVE Advance(_, _, _)
Advance(date, days, k) ==
    IF k = 0 THEN date
    ELSE IF Contains(days, Weekday(date)) THEN date
    ELSE Advance(AddDay(date), days, k - 1)

\* convertStartDate without its loop: the literal date, as convertDate gives it
convertStartDateLiteral(s, days) ==
    LET p == ParseDate(s)
    IN  IF ~p.ok THEN [s |-> "", err |-> "parse date"]
        ELSE [s |-> FormatDate(p.date), err |-> Nil]

\* convertStartDate
convertStartDate(s, days) ==
    LET p == ParseDate(s)
    IN  IF ~p.ok THEN [s |-> "", err |-> "parse date"]
        ELSE [s |-> FormatDate(Advance(p.date, days, SearchDays)), err |-> Nil]

\* time.Parse("3:04 PM", s): [ok, h, m]
ParseTime(s) ==
    LET hl    == IF IsDigit(s, 1) /\ IsDigit(s, 2) THEN 2 ELSE 1
        hour  == IF hl = 2 THEN Num2(s, 1) ELSE DigitVal(At(s, 1))
        rest  == SubSeq(s, hl + 4, Len(s))
        ap    == TrimLeft(rest, {" "})
        shape == /\ IsDigit(s, 1)
                 /\ At(s, hl + 1) = ":"
                 /\ TwoDigits(s, hl + 2)
                 /\ Len(rest) > 0 /\ At(rest, 1) = " "
                 /\ ap \in {"AM", "PM"}
        min   == Num2(s, hl + 2)
    IN  IF shape /\ hour <= 12 /\ min < 60
        THEN [ok |-> TRUE,
              h  |-> IF ap = "PM" /\ hour < 12 THEN hour + 12
                     ELSE IF ap = "AM" /\ hour = 12 THEN 0
                     ELSE hour,
              m  |-> min]
        ELSE [ok |-> FALSE, h |-> 0, m |-> 0]

\* convertTime: t.Format("150405")
convertTime(s) ==
    LET p == ParseTime(s)
    IN  IF ~p.ok THEN [s |-> "", err |-> "parse time"]
        ELSE [s |-> Pad2(p.h) \o Pad2(p.m) \o "00", err |-> Nil]

-----------------------------------------------------------------------------
(* sanitizeUID *)

Alnum == Letters \cup Digits

IsAlnum(ch) == ch \in Alnum

\* s after its leading run of characters outside [a-zA-Z0-9]
RECURSIVE SkipRun(_)
SkipRun(s) ==
    IF Len(s) > 0 /\ ~IsAlnum(At(s, 1)) THEN SkipRun(SubSeq(s, 2, Len(s))) ELSE s

\* re.ReplaceAllString(s, "_") for the expression [^a-zA-Z0-9]+
RECURSIVE ReplaceRuns(_)
ReplaceRuns(s) ==
    IF Len(s) = 0 THEN ""
    ELSE IF IsAlnum(At(s, 1)) THEN At(s, 1) \o ReplaceRuns(SubSeq(s, 2, Len(s)))
    ELSE "_" \o ReplaceRuns(SkipRun(s))

\* sanitizeUID without its strings.Trim
sanitizeUIDNoTrim(desc, days) == ReplaceRuns(desc \o days) \o "@wpi.edu"

sanitizeUID(desc, days) == Trim(ReplaceRuns(desc \o days), {"_"}) \o "@wpi.edu"

-----------------------------------------------------------------------------
(* GetIcal *)

\* dayMap with a Saturday entry
dayMapWithS ==
    [M |-> [ICal |-> "MO", Time |-> 1],
     T |-> [ICal |-> "TU", Time |-> 2],
     W |-> [ICal |-> "WE", Time |-> 3],
     R |-> [ICal |-> "TH", Time |-> 4],
     F |-> [ICal |-> "FR", Time |-> 5],
     S |-> [ICal |-> "SA", Time |-> 6]]

dayMap ==
    [M |-> [ICal |-> "MO", Time |-> 1],
     T |-> [ICal |-> "TU", Time |-> 2],
     W |-> [ICal |-> "WE", Time |-> 3],
     R |-> [ICal |-> "TH", Time |-> 4],
     F |-> [ICal |-> "FR", Time |-> 5]]

\* the loop over strings.SplitSeq(freq, "-"): ok is false at the first token
\* that is no key of dayMap
RECURSIVE ParseFreq(_, _, _)
ParseFreq(tokens, parsedFreq, days) ==
    IF Len(tokens) = 0
    THEN [ok |-> TRUE, parsedFreq |-> parsedFreq, validWeekdays |-> days]
    ELSE IF Head(tokens) \notin DOMAIN dayMap
    THEN [ok |-> FALSE, parsedFreq |-> parsedFreq, validWeekdays |-> days]
    ELSE ParseFreq(Tail(tokens),
                   Append(parsedFreq, dayMap[Head(tokens)].ICal),
                   Append(days, dayMap[Head(tokens)].Time))

\* the fmt.Sprintf of GetIcal
FormatEvent(uid, stamp, startDate, startTime, endTime, desc, location, byDay, endDate) ==
    "BEGIN:VEVENT\n"
    \o "UID:" \o uid \o "\n"
    \o "DTSTAMP:" \o stamp \o "\n"
    \o "DTSTART;TZID=" \o TIMEZONE \o ":" \o startDate \o "T" \o startTime \o "\n"
    \o "DTEND;TZID=" \o TIMEZONE \o ":" \o startDate \o "T" \o endTime \o "\n"
    \o "SUMMARY:" \o desc \o "\n"
    \o "LOCATION:" \o location \o "\n"
    \o "RRULE:FREQ=WEEKLY;BYDAY=" \o byDay \o ";UNTIL=" \o endDate \o "T235959\n"
    \o "BEGIN:VALARM\n"
    \o "TRIGGER:-PT15M\n"
    \o "ACTION:DISPLAY\n"
    \o "DESCRIPTION:Reminder - " \o desc \o " starts soon\n"
    \o "END:VALARM\n"
    \o "END:VEVENT\n"

\* GetIcal(c), with the value of time.Now().UTC().Format(...) it reads: [s, err]
GetIcal(course, stamp) ==
    LET parsedMeet == Split(course.Meeting, "|")
        freq       == TrimSpace(parsedMeet[1])
        pf         == ParseFreq(Split(freq, "-"), <<>>, <<>>)
        byDay      == Join(pf.parsedFreq, ",")
        endDate    == convertDate(course.EndDate)
        startDate  == convertStartDate(course.StartDate, pf.validWeekdays)
        times      == Split(TrimSpace(parsedMeet[2]), "-")
        startTime  == convertTime(TrimSpace(times[1]))
        endTime    == convertTime(TrimSpace(times[2]))
        location   == TrimSpace(parsedMeet[3])
    IN  IF course.Meeting = "" THEN [s |-> "", err |-> Nil]
        ELSE IF Len(parsedMeet) < 3
        THEN [s |-> "", err |-> "expected at least 3 parts"]
        ELSE IF ~pf.ok THEN [s |-> "", err |-> "unable to parse day"]
        ELSE IF endDate.err # Nil THEN [s |-> "", err |-> endDate.err]
        ELSE IF startDate.err # Nil THEN [s |-> "", err |-> startDate.err]
        ELSE IF Len(times) < 2
        THEN [s |-> "", err |-> "expected at least 2 times"]
        ELSE IF startTime.err # Nil THEN [s |-> "", err |-> startTime.err]
        ELSE IF endTime.err # Nil THEN [s |-> "", err |-> endTime.err]
        ELSE [s   |-> FormatEvent(sanitizeUID(course.Description, byDay), stamp,
                                  startDate.s, startTime.s, endTime.s,
                                  course.Description, location, byDay, endDate.s),
              err |-> Nil]

-----------------------------------------------------------------------------
(* getColumns and GetCourses *)

Required == {MEETING_COL, DESC_COL, START_DATE_COL, END_DATE_COL}

HeaderNames == Required \cup {INSTRUCTOR_COL}

\* cols[name] = j
Assign(cols, name, j) ==
    [k \in DOMAIN cols \cup {name} |-> IF k = name THEN j ELSE cols[k]]

\* cols[name] of a Go map: the zero value for a key that is not there
Lookup(cols, name) == IF name \in DOMAIN cols THEN cols[name] ELSE 0

\* for j, colCell := range row, from cell j on, in row i
RECURSIVE ScanRow(_, _, _, _)
ScanRow(row, i, j, st) ==
    IF j >= Len(row) THEN st
    ELSE IF row[j + 1] \in HeaderNames
    THEN ScanRow(row, i, j + 1,
                 [cols |-> Assign(st.cols, row[j + 1], j), startRow |-> i + 1])
    ELSE ScanRow(row, i, j + 1, st)

\* for i, row := range rows, from row i on, with its break
RECURSIVE ScanRows(_, _, _)
ScanRows(table, i, st) ==
    IF i >= Len(table) THEN st
    ELSE LET after == ScanRow(table[i + 1], i, 0, st)
         IN  IF after.startRow # -1 THEN after
             ELSE ScanRows(table, i + 1, after)

\* getColumns: [cols, startRow, missing]; it returns an error naming one
\* column of missing (the map's iteration order picks it) unless missing is empty
getColumns(table) ==
    LET st == ScanRows(table, 0, [cols |-> [k \in Required |-> -1], startRow |-> -1])
    IN  [cols     |-> st.cols,
         startRow |-> st.startRow,
         missing  |-> {k \in DOMAIN st.cols : st.cols[k] = -1}]

\* the description GetCourses joins from descSlice
Describe(row, descriptionCol, instructorCol) ==
    IF row[instructorCol + 1] # ""
    THEN Join(<<row[descriptionCol + 1], row[instructorCol + 1]>>, " - ")
    ELSE row[descriptionCol + 1]

\* for _, row := range rows[startRow:], from row k on: [courses, panic], where
\* panic is an index out of range
RECURSIVE RowLoop(_, _, _, _)
RowLoop(table, k, cols, acc) ==
    IF k >= Len(table) THEN [courses |-> acc, panic |-> FALSE]
    ELSE LET row            == table[k + 1]
             startDateCol   == cols[START_DATE_COL]
             endDateCol     == cols[END_DATE_COL]
             meetingCol     == cols[MEETING_COL]
             descriptionCol == cols[DESC_COL]
             instructorCol  == Lookup(cols, INSTRUCTOR_COL)
         IN  IF Len(row) <= endDateCol THEN [courses |-> acc, panic |-> FALSE]
             ELSE IF \E j \in {descriptionCol, instructorCol, meetingCol, startDateCol} :
                        j >= Len(row)
             THEN [courses |-> acc, panic |-> TRUE]
             ELSE RowLoop(table, k + 1, cols,
                          Append(acc, [Description |-> Describe(row, descriptionCol, instructorCol),
                                       Meeting     |-> row[meetingCol + 1],
                                       StartDate   |-> row[startDateCol + 1],
                                       EndDate     |-> row[endDateCol + 1]]))

\* GetCourses(f) on the rows of the first sheet
GetCourses ==
    /\ pc = "GetCourses"
    /\ LET g == getColumns(rows)
           r == RowLoop(rows, g.startRow, g.cols, <<>>)
       IN  \/ /\ g.missing # {}
              /\ \E k \in g.missing :
                   err' = "Unabled to parse Columns: Unable to Find Column: " \o k
              /\ courses' = <<>>
              /\ pc' = "returned"
           \/ /\ g.missing = {}
              /\ r.panic
              /\ pc' = "panicked"
              /\ UNCHANGED <<courses, err>>
           \/ /\ g.missing = {}
              /\ ~r.panic
              /\ courses' = r.courses
              /\ err' = Nil
              /\ pc' = "returned"
    /\ UNCHANGED <<rows, w, n, c, e, dateStr, validDays, t>>

RECURSIVE SeqsUpTo(_, _)
SeqsUpTo(S, k) ==
    IF k = 0 THEN {<<>>}
    ELSE LET shorter == SeqsUpTo(S, k - 1)
         IN  shorter \cup {Append(q, x) : q \in shorter, x \in S}

\* f.GetRows skips the blank cells at the end of a row
RECURSIVE TrimTail(_)
TrimTail(row) ==
    IF Len(row) > 0 /\ row[Len(row)] = ""
    THEN TrimTail(SubSeq(row, 1, Len(row) - 1))
    ELSE row

\* every order of the names of S in one row
RECURSIVE Perms(_)
Perms(S) ==
    IF S = {} THEN {<<>>}
    ELSE UNION {{<<x>> \o q : q \in Perms(S \ {x})} : x \in S}

HeaderRows == Perms(Required) \cup Perms(HeaderNames)

\* the rows up to the data: the header alone, under a title row, with its
\* names spread over two rows, or with a required name replaced
HeaderParts(h) ==
    {<<h>>, <<<<"View My Courses">>, h>>}
    \cup {<<SubSeq(h, 1, k), [j \in 1..Len(h) |-> IF j <= k THEN "" ELSE h[j]]>> :
            k \in 1..(Len(h) - 1)}
    \cup {<<[h EXCEPT ![k] = "Section"]>> : k \in {j \in 1..Len(h) : h[j] \in Required}}

\* data row r with len cells, the cell of column blank empty
DataRow(r, len, blank) ==
    TrimTail([j \in 1..len |->
                IF j = blank THEN "" ELSE SubSeq("abcdef", j, j) \o DigitChar(r)])

\* a worksheet: rows up to the data, then at most MaxDataRows data rows of any
\* length up to the header's, with one column, or none, blank
InitCourses ==
    /\ pc = "GetCourses"
    /\ \E h \in HeaderRows :
         \E hp \in HeaderParts(h), blank \in 0..Len(h),
            lens \in SeqsUpTo(0..Len(h), MaxDataRows) :
              rows = hp \o [r \in 1..Len(lens) |-> DataRow(r, lens[r], blank)]
    /\ courses = <<>> /\ err = Nil
    /\ w = "" /\ n = 0 /\ c = <<>> /\ e = ""
    /\ dateStr = "" /\ validDays = <<>> /\ t = ""

NextCourses == GetCourses

SpecCourses == InitCourses /\ [][NextCourses]_vars

-----------------------------------------------------------------------------
(* WriteIcalBuf, writing to the bytes.Buffer of processFile. *)

Header == "BEGIN:VCALENDAR\nVERSION:2.0\nCALSCALE:GREGORIAN\n"

Footer == "END:VCALENDAR\n"

\* values time.Now().UTC().Format("20060102T150405Z") may take
Stamps == {"20261103T120000Z", "20261103T120001Z"}

NewCourse(desc, meeting, startDate, endDate) ==
    [Description |-> desc, Meeting |-> meeting,
     StartDate |-> startDate, EndDate |-> endDate]

\* fmt.Fprintf(w, "BEGIN:VCALENDAR...")
WriteHeader ==
    /\ pc = "WriteIcalBuf"
    /\ w' = w \o Header
    /\ pc' = "loop"
    /\ UNCHANGED <<rows, courses, err, n, c, e, dateStr, validDays, t>>

\* WriteEvent that skips a course GetIcal fails on and goes on
WriteEventSkip ==
    /\ pc = "loop"
    /\ n < Len(courses)
    /\ \E stamp \in Stamps :
         LET r == GetIcal(courses[n + 1], stamp)
         IN  /\ c' = courses[n + 1]
             /\ e' = r.s
             /\ w' = w \o r.s
             /\ n' = n + 1
             /\ UNCHANGED <<err, pc>>
    /\ UNCHANGED <<rows, courses, dateStr, validDays, t>>

\* WriteEvent that takes an empty block for the end of the courses
WriteEventBreakOnEmpty ==
    /\ pc = "loop"
    /\ n < Len(courses)
    /\ \E stamp \in Stamps :
         LET r == GetIcal(courses[n + 1], stamp)
         IN  /\ c' = courses[n + 1]
             /\ e' = r.s
             /\ \/ /\ r.err # Nil
                   /\ err' = r.err
                   /\ pc' = "returned"
                   /\ UNCHANGED <<w, n>>
                \/ /\ r.err = Nil
                   /\ w' = w \o r.s
                   /\ n' = IF r.s = "" THEN Len(courses) ELSE n + 1
                   /\ UNCHANGED <<err, pc>>
    /\ UNCHANGED <<rows, courses, dateStr, validDays, t>>

\* one iteration of for _, c := range courses
WriteEvent ==
    /\ pc = "loop"
    /\ n < Len(courses)
    /\ \E stamp \in Stamps :
         LET r == GetIcal(courses[n + 1], stamp)
         IN  /\ c' = courses[n + 1]
             /\ e' = r.s
             /\ \/ /\ r.err # Nil
                   /\ err' = r.err
                   /\ pc' = "returned"
                   /\ UNCHANGED <<w, n>>
                \/ /\ r.err = Nil
                   /\ w' = w \o r.s
                   /\ n' = n + 1
                   /\ UNCHANGED <<err, pc>>
    /\ UNCHANGED <<rows, courses, dateStr, validDays, t>>

\* fmt.Fprintf(w, "END:VCALENDAR\n") and return err
WriteFooter ==
    /\ pc = "loop"
    /\ n = Len(courses)
    /\ w' = w \o Footer
    /\ err' = Nil
    /\ pc' = "returned"
    /\ UNCHANGED <<rows, courses, n, c, e, dateStr, validDays, t>>

\* the courses a batch is drawn from
WriteCourses ==
    {NewCourse("_MA 2051!", "M-W-F | 10:00 AM - 10:50 AM | Room 201", "01-06-25", "05-02-25"),
     NewCourse("_MA 2051!", "M-W-F | 1:00 PM - 1:50 PM | Lab", "01-06-25", "05-02-25"),
     NewCourse("CS 1101 - Smith", "T-R | 2:00 PM - 3:15 PM | Gym", "01-06-25", "05-02-25"),
     NewCourse("CS 1101 - Smith", "", "01-06-25", "05-02-25"),
     NewCourse("CS 1101 - Smith", "S-M | 1:00 PM - 2:00 PM | Lab", "01-06-25", "05-02-25"),
     NewCourse("PE 1000", "F | 8:00 AM - 8:50 AM | Gym", "01/06/25", "05-02-25")}

InitWrite ==
    /\ pc = "WriteIcalBuf"
    /\ courses \in SeqsUpTo(WriteCourses, MaxCourses)
    /\ w = "" /\ n = 0 /\ err = Nil
    /\ c = <<>> /\ e = ""
    /\ rows = <<>> /\ dateStr = "" /\ validDays = <<>> /\ t = ""

NextWrite == WriteHeader \/ WriteEvent \/ WriteFooter

SpecWrite == InitWrite /\ [][NextWrite]_vars

-----------------------------------------------------------------------------
(* GetIcal called on its own. *)

IcalDescs == {"CS 1101", "A, B"}

Freqs == {"M-W-F", "M-T-W-R-F", "T-R", "M", "F", "W-M", "M-M", "S-M", "", "M-", "m-w", "M - W"}

TimeRanges ==
    {"10:00 AM - 10:50 AM", "2:00 PM - 3:15 PM", "12:00 AM-12:30 PM",
     "10:00 AM", "", "9:00 - 10:00", "13:00 PM - 2:00 PM"}

Locations == {"Room 201", ""}

Meetings ==
    {""}
    \cup Freqs
    \cup {f \o " | " \o r : f \in Freqs, r \in TimeRanges}
    \cup {f \o " | " \o r \o " | " \o l : f \in Freqs, r \in TimeRanges, l \in Locations}
    \cup {f \o "|" \o r \o "|A|B" : f \in Freqs, r \in TimeRanges}

StartStrs == {"01-06-25", "01-11-25", "02-28-24", "12-31-25", "12-29-68", "1/6/25"}

EndStrs ==
    {"01-06-25", "01-08-25", "01-12-25", "05-02-25", "03-01-24", "01-02-26",
     "12-31-24", "05/02/25"}

InitIcal ==
    /\ pc = "GetIcal"
    /\ c \in {NewCourse(d, m, s, x) :
                d \in IcalDescs, m \in Meetings, s \in StartStrs, x \in EndStrs}
    /\ e = "" /\ err = Nil
    /\ rows = <<>> /\ courses = <<>> /\ w = "" /\ n = 0
    /\ dateStr = "" /\ validDays = <<>> /\ t = ""

CallGetIcal ==
    /\ pc = "GetIcal"
    /\ \E stamp \in Stamps :
         LET r == GetIcal(c, stamp)
         IN  e' = r.s /\ err' = r.err
    /\ pc' = "returned"
    /\ UNCHANGED <<rows, courses, w, n, c, dateStr, validDays, t>>

NextIcal == CallGetIcal

SpecIcal == InitIcal /\ [][NextIcal]_vars

-----------------------------------------------------------------------------
(* convertStartDate called on its own. *)

\* two-digit years, months and days the start dates are built from
YearStrs == {"24", "25", "68"}
MonthStrs == {"01", "02", "12"}
DayStrs == {"01", "06", "25", "26", "27", "28", "29", "30", "31"}

DateStrs ==
    {mm \o "-" \o dd \o "-" \o yy : mm \in MonthStrs, dd \in DayStrs, yy \in YearStrs}
    \cup {"", "1-6-25", "01/06/25", "13-01-25", "01-06-2025", "01-06--5"}

\* time.Monday .. time.Friday, the values of dayMap
ClassDays == 1..5

InitStart ==
    /\ pc = "convertStartDate"
    /\ dateStr \in DateStrs
    /\ validDays \in SeqsUpTo(ClassDays, MaxDays)
    /\ t = "" /\ err = Nil
    /\ rows = <<>> /\ courses = <<>> /\ w = "" /\ n = 0
    /\ c = <<>> /\ e = ""

CallConvertStartDate ==
    /\ pc = "convertStartDate"
    /\ LET r == convertStartDate(dateStr, validDays)
       IN  t' = r.s /\ err' = r.err
    /\ pc' = "returned"
    /\ UNCHANGED <<rows, courses, w, n, c, e, dateStr, validDays>>

NextStart == CallConvertStartDate

SpecStart == InitStart /\ [][NextStart]_vars

-----------------------------------------------------------------------------
(* What the properties read off the inputs and the output. *)

HasPrefix(s, p) == Len(s) >= Len(p) /\ SubSeq(s, 1, Len(p)) = p

Lines(s) == Split(s, "\n")

SetOf(q) == {q[k] : k \in 1..Len(q)}

\* the lines of s that start with p, in order, without p
RECURSIVE Fields(_, _)
Fields(ls, p) ==
    IF Len(ls) = 0 THEN <<>>
    ELSE IF HasPrefix(Head(ls), p)
    THEN <<SubSeq(Head(ls), Len(p) + 1, Len(Head(ls)))>> \o Fields(Tail(ls), p)
    ELSE Fields(Tail(ls), p)

\* the date a YYYYMMDD string names
StampDate(s) ==
    [y |-> 100 * Num2(s, 1) + Num2(s, 3), m |-> Num2(s, 5), d |-> Num2(s, 7)]

IsCalendarDate(date) == date.m \in 1..12 /\ date.d \in 1..DaysIn(date.m, date.y)

\* the cells of a worksheet
CellsOf(table) == UNION {SetOf(table[k]) : k \in 1..Len(table)}

-----------------------------------------------------------------------------
(* C1 *)

\* C1: column resolution fails with a column-not-found error if and only if
\* some required name is equal to no cell of any row; names spread over
\* several rows still resolve.
C1_FailsIffNameAbsent ==
    pc # "GetCourses" =>
        ((err # Nil) <=> (\E name \in Required : name \notin CellsOf(rows)))

-----------------------------------------------------------------------------
(* C2 *)

MaxOf(S) == CHOOSE x \in S : \A y \in S : y <= x

MinOf(S) == CHOOSE x \in S : \A y \in S : x <= y

\* index of the first row at or after startRow with no cell at column high,
\* or the number of rows
FirstShort(table, startRow, high) ==
    MinOf({k \in startRow..(Len(table) - 1) : Len(table[k + 1]) <= high}
          \cup {Len(table)})

\* C2: when the header row resolves the four required columns, in any order,
\* GetCourses returns normally, reading no cell beyond a row's end, with one
\* record for each row from dataStartRow up to the first row whose cell count
\* is at most the highest required column index, and none for the rows after.
C2_StopsAtFirstShortRow ==
    LET g     == getColumns(rows)
        high  == MaxOf({g.cols[k] : k \in Required})
        short == FirstShort(rows, g.startRow, high)
    IN  (pc # "GetCourses" /\ g.missing = {}) =>
            /\ pc = "returned"
            /\ Len(courses) = short - g.startRow
            /\ \A k \in 1..Len(courses) :
                 /\ courses[k].Meeting = rows[g.startRow + k][g.cols[MEETING_COL] + 1]
                 /\ courses[k].StartDate = rows[g.startRow + k][g.cols[START_DATE_COL] + 1]
                 /\ courses[k].EndDate = rows[g.startRow + k][g.cols[END_DATE_COL] + 1]

-----------------------------------------------------------------------------
(* C3 *)

\* C3: the Instructor column is optional: without it every description is
\* the Course Listing cell alone; with it the description is the Course
\* Listing cell, then " - " and the instructor cell when that cell is not
\* empty.
C3_InstructorOptional ==
    LET g == getColumns(rows)
    IN  (pc = "returned" /\ err = Nil) =>
            \A k \in 1..Len(courses) :
                LET row     == rows[g.startRow + k]
                    listing == row[g.cols[DESC_COL] + 1]
                IN  courses[k].Description =
                        IF INSTRUCTOR_COL \in CellsOf(rows)
                           /\ row[g.cols[INSTRUCTOR_COL] + 1] # ""
                        THEN listing \o " - " \o row[g.cols[INSTRUCTOR_COL] + 1]
                        ELSE listing

-----------------------------------------------------------------------------
(* C4 *)

\* C4: for a well-formed start date and a non-empty set of weekdays from
\* Monday to Friday, convertStartDate returns the earliest date on or after
\* the start date whose weekday is in the set: the start date itself when its
\* weekday is in the set, else a date 1 to 6 days later with no valid weekday
\* before it.
C4_EarliestValidDay ==
    (pc = "returned" /\ ParseDate(dateStr).ok /\ validDays # <<>>) =>
        /\ err = Nil
        /\ LET start == ParseDate(dateStr).date
               got   == StampDate(t)
               k     == DayNumber(got) - DayNumber(start)
           IN  /\ Len(t) = 8
               /\ IsCalendarDate(got)
               /\ k \in 0..6
               /\ Weekday(got) \in SetOf(validDays)
               /\ \A j \in 0..(k - 1) : (Weekday(start) + j) % 7 \notin SetOf(validDays)

\* a start date moved over the end of its month to the first valid weekday
C4_Witness ==
    /\ pc = "returned" /\ err = Nil /\ validDays # <<>>
    /\ ParseDate(dateStr).ok
    /\ SubSeq(t, 5, 6) # SubSeq(dateStr, 1, 2)

-----------------------------------------------------------------------------
(* C8 *)

-----------------------------------------------------------------------------
(* C7 *)

ParsedMeet(meeting) == Split(meeting, "|")

\* C7: for a non-empty pattern GetIcal returns an error and no block when the
\* pattern has fewer than 3 segments, or a day token of the first segment is
\* not one of M, T, W, R, F, or the second segment has fewer than 2 time
\* tokens; a block never comes with an error.
C7_MalformedPatternFails ==
    LET segs      == ParsedMeet(c.Meeting)
        badDay    == \E tok \in SetOf(Split(TrimSpace(segs[1]), "-")) :
                        tok \notin {"M", "T", "W", "R", "F"}
        fewTimes  == Len(segs) >= 2 /\ Len(Split(TrimSpace(segs[2]), "-")) < 2
    IN  pc = "returned" =>
            /\ err # Nil => e = ""
            /\ (c.Meeting # "" /\ (Len(segs) < 3 \/ badDay \/ fewTimes))
                 => (err # Nil /\ e = "")

\* a pattern of three segments and valid days with a single time token
C7_Witness ==
    /\ pc = "returned"
    /\ Len(ParsedMeet(c.Meeting)) >= 3
    /\ err = "expected at least 2 times"
    /\ e = ""

-----------------------------------------------------------------------------
(* C10 *)

\* the date of the DTSTART line of an event block
DtStart(block) == StampDate(SubSeq(Fields(Lines(block), "DTSTART;TZID=")[1],
                                   Len(TIMEZONE) + 2, Len(TIMEZONE) + 9))

RRule(block) == Fields(Lines(block), "RRULE:FREQ=WEEKLY;BYDAY=")[1]

\* the date of the UNTIL bound of an event block
Until(block) == StampDate(SubSeq(RRule(block), Len(RRule(block)) - 14,
                                 Len(RRule(block)) - 7))

\* the by-day list of an event block
ByDay(block) == SubSeq(RRule(block), 1, Len(RRule(block)) - 22)

CodeDay == [MO |-> 1, TU |-> 2, WE |-> 3, TH |-> 4, FR |-> 5]

ByDayWeekdays(block) == {CodeDay[code] : code \in SetOf(Split(ByDay(block), ","))}

DatesInOrder ==
    /\ pc = "returned" /\ err = Nil /\ e # ""
    /\ DayNumber(ParseDate(c.StartDate).date) <= DayNumber(ParseDate(c.EndDate).date)

\* C10 as stated: when the literal start date is on or before the literal end
\* date and the pattern parses, the DTSTART date is on or before the date of
\* the UNTIL bound.
C10_StartNotAfterUntil ==
    DatesInOrder => DayNumber(DtStart(e)) <= DayNumber(Until(e))

\* C10 as amended: under the same conditions the DTSTART date is 0 to 6 days
\* after the literal start date, and it is on or before the date of the UNTIL
\* bound exactly when one of the pattern's weekdays falls on a date from the
\* start date to the end date.
C10_StartNotAfterUntilIffMeets ==
    DatesInOrder =>
        LET start == ParseDate(c.StartDate).date
            end   == ParseDate(c.EndDate).date
            k     == DayNumber(DtStart(e)) - DayNumber(start)
        IN  /\ k \in 0..6
            /\ DayNumber(Until(e)) = DayNumber(end)
            /\ (DayNumber(DtStart(e)) <= DayNumber(Until(e)))
                 <=> (\E j \in 0..6 :
                        /\ DayNumber(start) + j <= DayNumber(end)
                        /\ (Weekday(start) + j) % 7 \in ByDayWeekdays(e))

\* a start date moved forward and still on or before the end date
C10_Witness ==
    /\ DatesInOrder
    /\ DayNumber(DtStart(e)) > DayNumber(ParseDate(c.StartDate).date)
    /\ DayNumber(DtStart(e)) <= DayNumber(Until(e))

-----------------------------------------------------------------------------
(* C5, C6 *)

\* synthesis fails for the course (the clock has no part in that)
Fails(course) == GetIcal(course, "").err # Nil

SomeFails == \E k \in 1..Len(courses) : Fails(courses[k])

HasSuffix(s, p) == Len(s) >= Len(p) /\ SubSeq(s, Len(s) - Len(p) + 1, Len(s)) = p

\* out is the blocks of the courses of q that have a non-empty pattern, in
\* order and each with some reading of the clock, and then tail
RECURSIVE Emitted(_, _, _)
Emitted(out, q, tail) ==
    IF Len(q) = 0 THEN out = tail
    ELSE IF Head(q).Meeting = "" THEN Emitted(out, Tail(q), tail)
    ELSE \E stamp \in Stamps :
            LET block == GetIcal(Head(q), stamp).s
            IN  /\ HasPrefix(block, "BEGIN:VEVENT\n")
                /\ HasPrefix(out, block)
                /\ Emitted(SubSeq(out, Len(block) + 1, Len(out)), Tail(q), tail)

\* what is written after the header
Body == SubSeq(w, Len(Header) + 1, Len(w))

-----------------------------------------------------------------------------
(* C9 *)

Suffix == "@wpi.edu"

RECURSIVE AlnumOnly(_)
AlnumOnly(s) ==
    IF Len(s) = 0 THEN ""
    ELSE IF IsAlnum(At(s, 1)) THEN At(s, 1) \o AlnumOnly(SubSeq(s, 2, Len(s)))
    ELSE AlnumOnly(SubSeq(s, 2, Len(s)))

\* the positions of s where a letter or digit follows a run of other characters
\* that itself follows a letter or digit
InnerRuns(s) ==
    {k \in 2..Len(s) :
        /\ IsAlnum(At(s, k)) /\ ~IsAlnum(At(s, k - 1))
        /\ \E j \in 1..(k - 1) : IsAlnum(At(s, j))}

\* uid is src with its runs of other characters made one "_" each, the ones at
\* the ends dropped, and the domain after it
UidOf(uid, src) ==
    LET core == SubSeq(uid, 1, Len(uid) - Len(Suffix))
    IN  /\ Len(uid) >= Len(Suffix)
        /\ SubSeq(uid, Len(core) + 1, Len(uid)) = Suffix
        /\ \A k \in 1..Len(core) : IsAlnum(At(core, k)) \/ At(core, k) = "_"
        /\ \A k \in 1..(Len(core) - 1) : ~(At(core, k) = "_" /\ At(core, k + 1) = "_")
        /\ Len(core) > 0 => (At(core, 1) # "_" /\ At(core, Len(core)) # "_")
        /\ AlnumOnly(core) = AlnumOnly(src)
        /\ Cardinality({k \in 1..Len(core) : At(core, k) = "_"})
             = Cardinality(InnerRuns(src))

HasPattern(course) == course.Meeting # ""

\* C9: the UID of every emitted event is description + by-day list with each
\* run of characters other than ASCII letters and digits made a single "_",
\* those at the ends removed, and the domain suffix after it; two courses with
\* the same description and by-day list get the same UID and both are
\* emitted.
C9_UidSanitized ==
    (pc = "returned" /\ err = Nil) =>
        LET written == Lines(w)
            uids    == Fields(written, "UID:")
            bydays  == Fields(written, "RRULE:FREQ=WEEKLY;BYDAY=")
            emitted == SelectSeq(courses, HasPattern)
            byday(k) == SubSeq(bydays[k], 1, Len(bydays[k]) - 22)
        IN  /\ Len(uids) = Len(emitted)
            /\ Len(bydays) = Len(emitted)
            /\ \A k \in 1..Len(emitted) :
                 UidOf(uids[k], emitted[k].Description \o byday(k))
            /\ \A j, k \in 1..Len(emitted) :
                 (emitted[j].Description = emitted[k].Description /\ byday(j) = byday(k))
                   => uids[j] = uids[k]

\* two courses with the same description and pattern, both emitted, whose
\* description begins and ends with characters that are dropped
C9_Witness ==
    /\ pc = "returned" /\ err = Nil
    /\ Len(courses) >= 2
    /\ courses[1] = courses[2]
    /\ courses[1].Description = "_MA 2051!"
    /\ courses[1].Meeting # ""
    /\ Len(Fields(Lines(w), "UID:")) >= 2

====
